---- MODULE Spec2Model ----
(***************************************************************************)
(* English-Dictation (main_gui.py): the accuracy ledger (Stats) and the    *)
(* practice session (DictationWindow), with the speech calls and the Tk    *)
(* timer that drive them.                                                  *)
(*                                                                         *)
(* Strings are sequences of characters, so that str.strip and str.lower    *)
(* are computed on them.  A Tk callback runs to completion on the main     *)
(* thread: each handler is one action.                                     *)
(***************************************************************************)
EXTENDS Integers, Sequences, FiniteSets, TLC

VARIABLES
    win,        \* the DictationWindow: "none" (not constructed), "open", "destroyed"
    lib_name,   \* DictationWindow.lib_name
    words,      \* DictationWindow.words
    used,       \* DictationWindow.used
    score,      \* DictationWindow.score
    total,      \* DictationWindow.total
    current,    \* DictationWindow.current
    var_input,  \* DictationWindow.var_input (the entry's text)
    timers,     \* pending self.after(2000, self.next_word) callbacks, oldest first
    threads,    \* running threading.Thread(target=core.speak) threads
    ui,         \* words MainApp.play_selected still has to speak on the main thread
    lastEvent,  \* the last Tk callback that ran, and how it ended
    drawn,      \* history: the word of every draw of next_word, in order
    db,         \* the rows of table record as Stats.conn sees them
    committed,  \* the rows of table record as of the last commit
    history,    \* history: the Stats.update calls that returned, in order
    caller,     \* the threads executing Stats.update concurrently
    dialog,     \* the new-library dialog of MainApp.on_create: "closed" or "open"
    tree,       \* the rows of the dialog's Treeview, in entry order
    files,      \* LIBS_DIR: library name -> the JSON document of <name>.json
    entered,    \* history: library name -> the rows in the Treeview at its last save
    listed,     \* the Words MainApp.on_lib_select loaded last
    authorEvent \* the last authoring callback that ran, and how it ended

vars == <<win, lib_name, words, used, score, total, current, var_input, timers,
          threads, ui, lastEvent, drawn, db, committed, history, caller,
          dialog, tree, files, entered, listed, authorEvent>>

sessionVars == <<win, lib_name, words, used, score, total, current, var_input,
                 timers, lastEvent, drawn>>
speechVars == <<threads, ui>>
callerVars == <<history, caller>>
authorVars == <<dialog, tree, files, entered, listed, authorEvent>>

----------------------------------------------------------------------------
(* Bounds of the model *)

MaxLen == 1        \* longest text typed into the entry
MaxAttempts == 2   \* judged submissions per session
MaxTimers == 2     \* pending after() callbacks
MaxThreads == 1    \* speak threads alive at once
MaxSelected == 1   \* words selected for play_selected
MaxUpdates == 3    \* Stats.update calls in the ledger-only specifications
MaxRows == 2       \* rows added to the new-library dialog's Treeview

----------------------------------------------------------------------------
(* Strings *)

None == "None"

Chars == {"a", "A", " "}

Whitespace == {" "}

Texts == UNION {[1..n -> Chars] : n \in 0..MaxLen}

LowerChar(c) == IF c = "A" THEN "a" ELSE c

lower(s) == [i \in 1..Len(s) |-> LowerChar(s[i])]

RECURSIVE lstrip(_)
lstrip(s) == IF s # <<>> /\ Head(s) \in Whitespace THEN lstrip(Tail(s)) ELSE s

RECURSIVE rstrip(_)
rstrip(s) ==
    IF s # <<>> /\ s[Len(s)] \in Whitespace THEN rstrip(SubSeq(s, 1, Len(s) - 1)) ELSE s

\* the answer compared as typed, without str.strip
strip_omitted(s) == s

strip(s) == rstrip(lstrip(s))

----------------------------------------------------------------------------
(* The library on disk and the working sets chosen from it *)

Word(w, m) == [word |-> w, meaning |-> m]

Libs == {"lib1", "lib2"}

\* the library selected in MainApp.lib_listbox when the session starts
lib_selected == "lib1"

load_lib ==
    << Word(<<"a">>, "m1"), Word(<<"A", " ">>, "m2"), Word(<<"A">>, "m3"),
       Word(<<"a">>, "m4") >>

RECURSIVE Pick(_, _)
Pick(ws, sel) ==
    IF ws = <<>> THEN <<>>
    ELSE (IF Len(ws) \in sel THEN Pick(SubSeq(ws, 1, Len(ws) - 1), sel) \o <<ws[Len(ws)]>>
          ELSE Pick(SubSeq(ws, 1, Len(ws) - 1), sel))

selected_words == {Pick(load_lib, sel) : sel \in SUBSET (1..Len(load_lib))}

Identities(ws) == {ws[i].word : i \in 1..Len(ws)}

----------------------------------------------------------------------------
(* Stats: table record, PRIMARY KEY (lib_name, word) *)

NoRow == <<>>

Keys == Libs \X Identities(load_lib)

Select(conn, key) == IF key \in DOMAIN conn THEN conn[key] ELSE NoRow

int(b) == IF b THEN 1 ELSE 0

SqlUpdate(conn, key, row) ==
    IF key \in DOMAIN conn THEN [conn EXCEPT ![key] = row] ELSE conn

SqlInsert(conn, key, row) == (key :> row) @@ conn

\* the UPDATE branch counting every attempt as a correct one
StatsUpdate_always_correct(conn, lib, word, correct) ==
    LET row == Select(conn, <<lib, word>>) IN
    IF row # NoRow
    THEN SqlUpdate(conn, <<lib, word>>, <<row[1] + 1, row[2] + 1>>)
    ELSE SqlInsert(conn, <<lib, word>>, <<int(correct), 1>>)

StatsUpdate(conn, lib, word, correct) ==
    LET row == Select(conn, <<lib, word>>) IN
    IF row # NoRow
    THEN SqlUpdate(conn, <<lib, word>>, <<row[1] + int(correct), row[2] + 1>>)
    ELSE SqlInsert(conn, <<lib, word>>, <<int(correct), 1>>)

StatsGet(conn, lib, word) ==
    LET row == Select(conn, <<lib, word>>) IN
    IF row # NoRow THEN row ELSE <<0, 0>>

----------------------------------------------------------------------------
(* DictationWindow *)

Event(op, result, prev, tag, verdict) ==
    [op |-> op, result |-> result, prev |-> prev, tag |-> tag, verdict |-> verdict]

\* current, and the Word an event names, is the position of the Word object in
\* words; NoWord stands for Python's None
NoWord == 0

\* the draw taken from all of words, used ignored
candidates_unfiltered(ws, us) == 1..Len(ws)

candidates(ws, us) == {i \in 1..Len(ws) : ws[i].word \notin us}

AllUsed(ws, us) == Cardinality(us) = Len(ws)

\* next_word, run by handler op on the fields ws (words), us (used), cur (current);
\* tm is what stays pending in the timer queue, tag the Word the firing timer was
\* scheduled for.
next_word(op, ws, us, cur, tm, tag) ==
    IF AllUsed(ws, us)
    THEN /\ win' = "destroyed"
         /\ timers' = <<>>
         /\ lastEvent' = Event(op, "finished", cur, tag, FALSE)
         /\ used' = us
         /\ current' = cur
         /\ var_input' = var_input
         /\ UNCHANGED <<drawn, threads>>
    ELSE IF candidates(ws, us) = {}
    THEN /\ lastEvent' = Event(op, "IndexError", cur, tag, FALSE)
         /\ timers' = tm
         /\ used' = us
         /\ current' = cur
         /\ var_input' = var_input
         /\ UNCHANGED <<win, drawn, threads>>
    ELSE /\ threads < MaxThreads
         /\ \E i \in candidates(ws, us) :
              /\ current' = i
              /\ used' = us \cup {ws[i].word}
              /\ drawn' = Append(drawn, i)
         /\ var_input' = <<>>
         /\ threads' = threads + 1
         /\ win' = "open"
         /\ timers' = tm
         /\ lastEvent' = Event(op, "drawn", cur, tag, FALSE)

MainThreadFree == ui = 0

Construct ==
    /\ win = "none"
    /\ MainThreadFree
    /\ \E ws \in selected_words :
         /\ lib_name' = lib_selected
         /\ words' = ws
         /\ score' = 0
         /\ total' = 0
         /\ next_word("construct", ws, {}, NoWord, <<>>, NoWord)
    /\ UNCHANGED <<ui, db, committed, callerVars, authorVars>>

NextWordButton ==
    /\ win = "open"
    /\ MainThreadFree
    /\ next_word("next_button", words, used, current, timers, NoWord)
    /\ UNCHANGED <<lib_name, words, score, total, ui, db, committed, callerVars, authorVars>>

TimerFire ==
    /\ win = "open"
    /\ MainThreadFree
    /\ timers # <<>>
    /\ next_word("timer", words, used, current, Tail(timers), Head(timers))
    /\ UNCHANGED <<lib_name, words, score, total, ui, db, committed, callerVars, authorVars>>

IsEmpty(user) == user = <<>>

Matches(user, word) == user = lower(word)

check(text) ==
    /\ win = "open"
    /\ MainThreadFree
    /\ var_input' = text
    /\ IF current = NoWord
       THEN /\ lastEvent' = Event("check", "no_current", NoWord, NoWord, FALSE)
            /\ UNCHANGED <<score, total, timers, db, committed>>
       ELSE IF IsEmpty(lower(strip(text)))
       THEN /\ lastEvent' = Event("check", "blank", current, NoWord, FALSE)
            /\ UNCHANGED <<score, total, timers, db, committed>>
       ELSE LET word == words[current].word
                correct == Matches(lower(strip(text)), word) IN
            /\ total < MaxAttempts
            /\ correct => Len(timers) < MaxTimers
            /\ db' = StatsUpdate(db, lib_name, word, correct)
            /\ committed' = db'
            /\ total' = total + 1
            /\ score' = IF correct THEN score + 1 ELSE score
            /\ timers' = IF correct THEN Append(timers, current) ELSE timers
            /\ lastEvent' = Event("check", "judged", current, NoWord, correct)
    /\ UNCHANGED <<win, lib_name, words, used, current, drawn, speechVars, callerVars, authorVars>>

Check == \E text \in Texts : check(text)

----------------------------------------------------------------------------
(* Speech *)

play_current ==
    /\ win = "open"
    /\ MainThreadFree
    /\ current # NoWord
    /\ threads < MaxThreads
    /\ threads' = threads + 1
    /\ UNCHANGED <<sessionVars, ui, db, committed, callerVars, authorVars>>

\* core.speak returning or raising inside its thread: the thread ends either way
SpeakThreadEnd ==
    /\ threads > 0
    /\ threads' = threads - 1
    /\ UNCHANGED <<sessionVars, ui, db, committed, callerVars, authorVars>>

play_selected ==
    /\ MainThreadFree
    /\ \E n \in 1..MaxSelected : ui' = n
    /\ UNCHANGED <<sessionVars, threads, db, committed, callerVars, authorVars>>

\* core.speak(text, repeat=1) returning inside play_selected's loop
SpeakReturn ==
    /\ ui > 0
    /\ ui' = ui - 1
    /\ UNCHANGED <<sessionVars, threads, db, committed, callerVars, authorVars>>

\* core.speak raising inside play_selected: the callback ends with the exception
SpeakRaise ==
    /\ ui > 0
    /\ ui' = 0
    /\ UNCHANGED <<sessionVars, threads, db, committed, callerVars, authorVars>>

----------------------------------------------------------------------------
(* The program: one session on a fresh stats.db *)

AuthorEvent(op, result, name) == [op |-> op, result |-> result, name |-> name]

NoCaller == [pc |-> "idle", correct |-> FALSE, row |-> NoRow]

Callers == {1, 2}

Init ==
    /\ win = "none"
    /\ lib_name = None
    /\ words = <<>>
    /\ used = {}
    /\ score = 0
    /\ total = 0
    /\ current = NoWord
    /\ var_input = <<>>
    /\ timers = <<>>
    /\ threads = 0
    /\ ui = 0
    /\ lastEvent = Event("init", "none", NoWord, NoWord, FALSE)
    /\ drawn = <<>>
    /\ db = <<>>
    /\ committed = <<>>
    /\ history = <<>>
    /\ caller = [i \in Callers |-> NoCaller]
    /\ dialog = "closed"
    /\ tree = <<>>
    /\ files = <<>>
    /\ entered = <<>>
    /\ listed = <<>>
    /\ authorEvent = AuthorEvent("init", "none", <<>>)

Next ==
    \/ Construct
    \/ NextWordButton
    \/ TimerFire
    \/ Check
    \/ play_current
    \/ SpeakThreadEnd
    \/ play_selected
    \/ SpeakReturn
    \/ SpeakRaise

Spec == Init /\ [][Next]_vars

----------------------------------------------------------------------------
(* The ledger alone, called serially; history records the calls made, and *)
(* Correct and Calls count them per key                                   *)

Correct(h, key) == Len(SelectSeq(h, LAMBDA c : c[1] = key /\ c[2]))

Calls(h, key) == Len(SelectSeq(h, LAMBDA c : c[1] = key))

StatsUpdateCall ==
    /\ Len(history) < MaxUpdates
    /\ \E key \in Keys, correct \in BOOLEAN :
         /\ db' = StatsUpdate(db, key[1], key[2], correct)
         /\ committed' = db'
         /\ history' = Append(history, <<key, correct>>)
    /\ UNCHANGED <<sessionVars, speechVars, authorVars, caller>>

NextStats == StatsUpdateCall

SpecStats == Init /\ [][NextStats]_vars

----------------------------------------------------------------------------
(* The ledger called by two threads on the shared connection              *)
(* (check_same_thread=False): every statement is one step, "with conn"    *)
(* commits on return and rolls back on an exception.                      *)

ConcKey == <<"lib1", <<"a">>>>

InFlight == Cardinality({i \in Callers : caller[i].pc # "idle"})

\* entering update: the SELECT and fetchone
UpdateSelect(i) ==
    /\ caller[i].pc = "idle"
    /\ Len(history) + InFlight < MaxUpdates
    /\ \E correct \in BOOLEAN :
         caller' = [caller EXCEPT ![i] =
                      [pc |-> "selected", correct |-> correct, row |-> Select(db, ConcKey)]]
    /\ UNCHANGED <<sessionVars, speechVars, authorVars, db, committed, history>>

\* the UPDATE or the INSERT; an INSERT of a key that is there raises
\* sqlite3.IntegrityError and the with block rolls the connection back
UpdateWrite(i) ==
    /\ caller[i].pc = "selected"
    /\ LET c == caller[i] IN
       IF c.row # NoRow
       THEN /\ db' = SqlUpdate(db, ConcKey, <<c.row[1] + int(c.correct), c.row[2] + 1>>)
            /\ caller' = [caller EXCEPT ![i].pc = "written"]
       ELSE IF ConcKey \in DOMAIN db
       THEN /\ db' = committed
            /\ caller' = [caller EXCEPT ![i] = NoCaller]
       ELSE /\ db' = SqlInsert(db, ConcKey, <<int(c.correct), 1>>)
            /\ caller' = [caller EXCEPT ![i].pc = "written"]
    /\ UNCHANGED <<sessionVars, speechVars, authorVars, committed, history>>

\* leaving the with block: commit, and update returns
UpdateCommit(i) ==
    /\ caller[i].pc = "written"
    /\ committed' = db
    /\ history' = Append(history, <<ConcKey, caller[i].correct>>)
    /\ caller' = [caller EXCEPT ![i] = NoCaller]
    /\ UNCHANGED <<sessionVars, speechVars, authorVars, db>>

NextConc == \E i \in Callers : UpdateSelect(i) \/ UpdateWrite(i) \/ UpdateCommit(i)

SpecConc == Init /\ [][NextConc]_vars

----------------------------------------------------------------------------
(* Authoring: the new-library dialog of MainApp.on_create, and load_lib of *)
(* the files it writes.  json.dumps and json.load keep the document's      *)
(* structure: a document is the record of its "words" list.                *)

NameTexts == {<<>>, <<" ">>, <<"a">>, <<"a", " ">>, <<"A">>}

WordTexts == {<<>>, <<"a">>, <<"A">>}

MeaningTexts == {"", "m1", "m2"}

WordDict(vals) == [word |-> vals[1], meaning |-> vals[2]]

\* the loop of save_and_close over tree.get_children(): every row's dict is
\* built and dropped, words is never appended to
RECURSIVE collect(_, _)
collect(rows, ws) ==
    IF rows = <<>> THEN ws
    ELSE LET d == WordDict(Head(rows)) IN collect(Tail(rows), ws)

json_document(ws) == [words |-> ws]

LoadLib(fs, name) ==
    [i \in 1..Len(fs[name].words) |->
        Word(fs[name].words[i].word, fs[name].words[i].meaning)]

on_create ==
    /\ dialog = "closed"
    /\ dialog' = "open"
    /\ tree' = <<>>
    /\ authorEvent' = AuthorEvent("on_create", "opened", <<>>)
    /\ UNCHANGED <<files, entered, listed, sessionVars, speechVars, db, committed,
                   history, caller>>

add_to_tree ==
    /\ dialog = "open"
    /\ \E w \in WordTexts, m \in MeaningTexts :
         IF w = <<>> \/ m = ""
         THEN /\ authorEvent' = AuthorEvent("add_to_tree", "missing field", <<>>)
              /\ tree' = tree
         ELSE /\ Len(tree) < MaxRows
              /\ tree' = Append(tree, <<w, m>>)
              /\ authorEvent' = AuthorEvent("add_to_tree", "added", <<>>)
    /\ UNCHANGED <<dialog, files, entered, listed, sessionVars, speechVars, db,
                   committed, history, caller>>

save_and_close ==
    /\ dialog = "open"
    /\ \E text \in NameTexts, overwrite \in BOOLEAN :
         LET name == strip(text) IN
         IF name = <<>>
         THEN /\ authorEvent' = AuthorEvent("save_and_close", "no name", name)
              /\ UNCHANGED <<dialog, tree, files, entered>>
         ELSE IF tree = <<>>
         THEN /\ authorEvent' = AuthorEvent("save_and_close", "empty library", name)
              /\ UNCHANGED <<dialog, tree, files, entered>>
         ELSE IF name \in DOMAIN files /\ ~overwrite
         THEN /\ authorEvent' = AuthorEvent("save_and_close", "not overwritten", name)
              /\ UNCHANGED <<dialog, tree, files, entered>>
         ELSE /\ files' = (name :> json_document(collect(tree, <<>>))) @@ files
              /\ entered' = (name :> tree) @@ entered
              /\ dialog' = "closed"
              /\ tree' = tree
              /\ authorEvent' = AuthorEvent("save_and_close", "saved", name)
    /\ UNCHANGED <<listed, sessionVars, speechVars, db, committed, history, caller>>

cancel ==
    /\ dialog = "open"
    /\ dialog' = "closed"
    /\ authorEvent' = AuthorEvent("cancel", "closed", <<>>)
    /\ UNCHANGED <<tree, files, entered, listed, sessionVars, speechVars, db,
                   committed, history, caller>>

on_lib_select ==
    /\ dialog = "closed"
    /\ \E name \in DOMAIN files :
         /\ listed' = LoadLib(files, name)
         /\ authorEvent' = AuthorEvent("on_lib_select", "loaded", name)
    /\ UNCHANGED <<dialog, tree, files, entered, sessionVars, speechVars, db,
                   committed, history, caller>>

NextAuthor ==
    \/ on_create
    \/ add_to_tree
    \/ save_and_close
    \/ cancel
    \/ on_lib_select

SpecAuthor == Init /\ [][NextAuthor]_vars

----------------------------------------------------------------------------
(* Properties *)

RECURSIVE SumTotals(_, _)
SumTotals(conn, keys) ==
    IF keys = {} THEN 0
    ELSE LET k == CHOOSE x \in keys : TRUE IN conn[k][2] + SumTotals(conn, keys \ {k})

IdentityAt(k) == words[drawn[k]].word

Visits(w) == Cardinality({k \in 1..Len(drawn) : IdentityAt(k) = w})

IsBlankText(text) == \A i \in 1..Len(text) : text[i] \in Whitespace

Normalized(s) == lower(strip(s))

Finished == win = "destroyed"

C2_Original ==
    [][(lastEvent.result = "judged" /\ Check /\ ~IsBlankText(var_input'))
          => (db' = db /\ score' = score /\ total' = total)]_vars

\* C3 (as stated): next_word run when every word identity of the working set is
\* in used ends the session, also when two entries share their word text.
C3_Original ==
    (/\ lastEvent.op \in {"next_button", "timer"}
     /\ lastEvent.result # "drawn"
     /\ Identities(words) \subseteq used)
        => Finished

\* C4: after any serial sequence of Stats.update calls from an empty ledger,
\* Stats.get of every key returns (K, N), N the updates made for the key and K
\* the correct ones among them; correct <= total in every record, and a key
\* never updated reads (0, 0).
C4_GetCountsUpdates ==
    /\ \A key \in Keys :
         StatsGet(db, key[1], key[2]) = <<Correct(history, key), Calls(history, key)>>
    /\ \A key \in DOMAIN db : db[key][1] <= db[key][2]
    /\ \A key \in Keys : Calls(history, key) = 0 => StatsGet(db, key[1], key[2]) = <<0, 0>>

\* one key updated several times with both verdicts, another never updated
C4_Witness ==
    /\ Calls(history, ConcKey) >= 2
    /\ Correct(history, ConcKey) = 1
    /\ \E key \in Keys : Calls(history, key) = 0

\* C5 (as stated): when the concurrent callers of Stats.update for one key have
\* all returned, no increment is lost: the record counts every call that
\* returned, and every correct one among them.
C5_Original ==
    (\A i \in Callers : caller[i].pc = "idle") =>
        StatsGet(db, ConcKey[1], ConcKey[2])
            = <<Correct(history, ConcKey), Calls(history, ConcKey)>>

\* C6: check with an empty or whitespace-only text changes nothing of the
\* session or the ledger, and the next non-blank check of the same current word
\* is judged and recorded: total and the word's ledger total grow by one.
C6_BlankRejected ==
    [][\A text \in Texts :
         /\ (IsBlankText(text) /\ check(text)) =>
               UNCHANGED <<win, words, used, current, score, total, timers, drawn,
                           db, committed>>
         /\ (lastEvent.result = "blank" /\ ~IsBlankText(text) /\ check(text)) =>
               /\ lastEvent'.result = "judged"
               /\ current' = current
               /\ total' = total + 1
               /\ StatsGet(db', lib_name, words[current].word)[2]
                    = StatsGet(db, lib_name, words[current].word)[2] + 1
               /\ StatsGet(db', lib_name, words[current].word)[1]
                    = StatsGet(db, lib_name, words[current].word)[1]
                        + int(lastEvent'.verdict)]_vars

\* a whitespace-only submission was just rejected, after an earlier judged one
C6_Witness ==
    /\ lastEvent.op = "check"
    /\ lastEvent.result = "blank"
    /\ var_input # <<>>
    /\ total >= 1

\* C7 (as stated): the verdict of check is: the submitted text and the current
\* word's spelling are equal after both are stripped and lower-cased.
C7_Original ==
    lastEvent.result = "judged" =>
        (lastEvent.verdict <=>
            Normalized(var_input) = Normalized(words[lastEvent.prev].word))

\* C8 (as stated): constructing a session with an empty word sequence fails with
\* an invalid-session error: no running and no normally completed session.
C8_Original ==
    (lastEvent.op = "construct" /\ words = <<>>) =>
        (lastEvent.result = "InvalidSessionError" /\ ~Finished)

\* C9 (as stated): while a speak request is in progress, check and next_word of
\* an open session remain executable: the main thread is free to run them.
C9_Original ==
    (win = "open" /\ (threads > 0 \/ ui > 0)) => MainThreadFree

\* C10 (as stated): the callback check scheduled for a word only ever replaces
\* that word as current; fired after the user has advanced, it draws nothing.
C10_Original ==
    (lastEvent.op = "timer" /\ lastEvent.result = "drawn") =>
        lastEvent.tag = lastEvent.prev

\* C11 (as stated): a library saved from the new-library dialog with n >= 1
\* entered (word, meaning) rows, then loaded under the same name, yields exactly
\* those n Words in entry order.
C11_Original ==
    (authorEvent.op = "on_lib_select" /\ Len(entered[authorEvent.name]) >= 1) =>
        listed = [i \in 1..Len(entered[authorEvent.name]) |->
                    Word(entered[authorEvent.name][i][1], entered[authorEvent.name][i][2])]

====
